---- MODULE Spec2Model ----
(***************************************************************************)
(* Model of terminal-ime-proxy: the CompositionBuffer state machine        *)
(* (composition-buffer.ts), the IME classifier (ime-detector.ts) and the   *)
(* stdin -> special keys -> classifier -> buffer -> PTY path of            *)
(* TerminalIMEProxy.                                                       *)
(*                                                                         *)
(* A stdin chunk is a tuple of bytes.  A JavaScript string is a tuple of   *)
(* UTF-16 code units.  Timers are the handles pending in the runtime's     *)
(* timer list, each with the instant at which it becomes due.              *)
(***************************************************************************)
EXTENDS Integers, Sequences, FiniteSets, TLC

VARIABLES
    state,        \* CompositionBuffer.state: isComposing, buffer, lastInputTime, flushTimer
    timers,       \* handles given out by setTimeout and neither fired nor cleared
    timerSeq,     \* number of handles setTimeout has created so far
    ptyWrites,    \* the calls pty.write(text) made so far, in order, with the sink they came through
    isDestroyed,  \* TerminalIMEProxy.isDestroyed
    rawMode,      \* raw mode of process.stdin
    ptyKilled,    \* pty.kill() has been called
    exitCode,     \* NoExit while the host process runs, else the code given to process.exit
    now,          \* Date.now(), in ms since the proxy was constructed
    nChunks,      \* number of 'data' events stdin has delivered
    accepted,     \* history: text of the chunks handled so far, less the code points absorbed backspaces removed
    imeIn,        \* history: text handed to process(text, true), less the code points backspace() removed
    regularIn,    \* history: the texts handed to process(text, false), in order
    nCalls,       \* number of calls a library consumer has made on the buffer
    lastOp,       \* the last such call: its name, the buffer before it, the value it returned
    isTTY,        \* process.stdin.isTTY
    priorRawMode, \* process.stdin.isRaw before the proxy was constructed
    lifeLog,      \* history: "teardown" for each run of the body of destroy(), "exit" for each call of process.exit
    lastEvent,    \* history: the last signal or child exit the host process has received
    childOut,     \* history: the output chunks the child has produced while the proxy was not torn down
    stdoutWrites, \* the calls process.stdout.write(data) made so far, in order
    sample,       \* the text last handed to isIMEInput by a library consumer
    verdict,      \* what isIMEInput returned for it
    staleTimers,  \* history: handles of the timers that were already due when an IME chunk replaced them
    thrown,       \* the last call or listener ended with an exception thrown by a sink
    listeners     \* the events the constructor has installed a listener for

vars == <<state, timers, timerSeq, ptyWrites, isDestroyed, rawMode, ptyKilled,
          exitCode, now, nChunks, accepted, imeIn, regularIn, nCalls, lastOp,
          isTTY, priorRawMode, lifeLog, lastEvent, childOut, stdoutWrites,
          sample, verdict,
          staleTimers,
          thrown,
          listeners>>

(* what the buffer and the stdin path never touch *)
ttyVars == <<isTTY, priorRawMode>>
classifierVars == <<sample, verdict>>

---------------------------------------------------------------------------
(* Bounds of the model *)

MaxChunks == 3      \* stdin 'data' events per run
MaxCalls == 3       \* calls a library consumer makes on a CompositionBuffer
MaxTime == 200      \* the clock stops advancing here
TickMs == 50        \* granularity of the clock

(* Program constants *)

DEFAULT_TIMEOUT == 50

NULL == 0           \* flushTimer: null; timer handles are 1, 2, ...
NoExit == -1

---------------------------------------------------------------------------
(* Sequences *)

RECURSIVE Flatten(_)
Flatten(ss) == IF ss = <<>> THEN <<>> ELSE Head(ss) \o Flatten(Tail(ss))

Last(s) == s[Len(s)]
Front(s) == SubSeq(s, 1, Len(s) - 1)

---------------------------------------------------------------------------
(* Buffer.toString('utf8'): the decoder replaces every maximal ill-formed  *)
(* subsequence by U+FFFD and emits code points above U+FFFF as a surrogate *)
(* pair.                                                                   *)

REPLACEMENT == 65533

Utf16Units(cp) ==
    IF cp < 65536 THEN <<cp>>
    ELSE <<55296 + ((cp - 65536) \div 1024), 56320 + ((cp - 65536) % 1024)>>

RECURSIVE Utf8DecodeFrom(_, _, _, _, _, _, _)
Utf8DecodeFrom(bytes, i, needed, seen, lo, hi, cp) ==
    IF i > Len(bytes)
    THEN IF needed # 0 THEN <<REPLACEMENT>> ELSE <<>>
    ELSE LET b == bytes[i] IN
         IF needed = 0
         THEN IF b < 128 THEN <<b>> \o Utf8DecodeFrom(bytes, i + 1, 0, 0, 128, 191, 0)
              ELSE IF b \in 194..223 THEN Utf8DecodeFrom(bytes, i + 1, 1, 0, 128, 191, b % 32)
              ELSE IF b \in 224..239
                   THEN Utf8DecodeFrom(bytes, i + 1, 2, 0,
                                       IF b = 224 THEN 160 ELSE 128,
                                       IF b = 237 THEN 159 ELSE 191, b % 16)
              ELSE IF b \in 240..244
                   THEN Utf8DecodeFrom(bytes, i + 1, 3, 0,
                                       IF b = 240 THEN 144 ELSE 128,
                                       IF b = 244 THEN 143 ELSE 191, b % 8)
              ELSE <<REPLACEMENT>> \o Utf8DecodeFrom(bytes, i + 1, 0, 0, 128, 191, 0)
         ELSE IF b \notin lo..hi
              THEN <<REPLACEMENT>> \o Utf8DecodeFrom(bytes, i, 0, 0, 128, 191, 0)
              ELSE LET cp2 == cp * 64 + (b % 64) IN
                   IF seen + 1 = needed
                   THEN Utf16Units(cp2) \o Utf8DecodeFrom(bytes, i + 1, 0, 0, 128, 191, 0)
                   ELSE Utf8DecodeFrom(bytes, i + 1, needed, seen + 1, 128, 191, cp2)

toString(data) == Utf8DecodeFrom(data, 1, 0, 0, 128, 191, 0)

---------------------------------------------------------------------------
(* JavaScript strings *)

IsHighSurrogate(u) == u \in 55296..56319
IsLowSurrogate(u) == u \in 56320..57343

(* [...str]: the string iterator yields one element per code point; a      *)
(* surrogate pair is one element, an unpaired surrogate is one element.    *)
RECURSIVE spread(_)
spread(str) ==
    IF str = <<>> THEN <<>>
    ELSE IF Len(str) >= 2 /\ IsHighSurrogate(str[1]) /\ IsLowSurrogate(str[2])
         THEN <<SubSeq(str, 1, 2)>> \o spread(SubSeq(str, 3, Len(str)))
         ELSE <<SubSeq(str, 1, 1)>> \o spread(Tail(str))

(* chars.join('') *)
join(chars) == Flatten(chars)

(* Buffer.byteLength(str, 'utf8') *)
RECURSIVE byteLength(_)
byteLength(str) ==
    IF str = <<>> THEN 0
    ELSE IF Len(str) >= 2 /\ IsHighSurrogate(str[1]) /\ IsLowSurrogate(str[2])
         THEN 4 + byteLength(SubSeq(str, 3, Len(str)))
         ELSE (IF str[1] < 128 THEN 1 ELSE IF str[1] < 2048 THEN 2 ELSE 3)
              + byteLength(Tail(str))

(* the bytes pty.write(str) hands the child: str encoded as UTF-8, a lone  *)
(* surrogate encoded as U+FFFD                                             *)
RECURSIVE utf8Encode(_)
utf8Encode(str) ==
    IF str = <<>> THEN <<>>
    ELSE IF Len(str) >= 2 /\ IsHighSurrogate(str[1]) /\ IsLowSurrogate(str[2])
         THEN LET cp == 65536 + (str[1] - 55296) * 1024 + (str[2] - 56320)
              IN  <<240 + (cp \div 262144), 128 + ((cp \div 4096) % 64),
                    128 + ((cp \div 64) % 64), 128 + (cp % 64)>>
                  \o utf8Encode(SubSeq(str, 3, Len(str)))
         ELSE LET cp == IF IsHighSurrogate(str[1]) \/ IsLowSurrogate(str[1])
                        THEN REPLACEMENT ELSE str[1]
                  bytes == IF cp < 128 THEN <<cp>>
                           ELSE IF cp < 2048
                                THEN <<192 + (cp \div 64), 128 + (cp % 64)>>
                                ELSE <<224 + (cp \div 4096), 128 + ((cp \div 64) % 64),
                                       128 + (cp % 64)>>
              IN  bytes \o utf8Encode(Tail(str))

(* data.toString('utf8') met no decode error: the decoded string encodes   *)
(* back to the bytes of data                                               *)
WellFormed(data) == utf8Encode(toString(data)) = data

(* regex.test(str) for a character class given as a set of code units *)
test(class, str) == \E i \in 1..Len(str) : str[i] \in class

---------------------------------------------------------------------------
(* ime-detector.ts: UNICODE_RANGES and the predicates over them *)

VietnamesePrecomposed ==
    (192..255) \cup (258..259) \cup (272..273) \cup (296..297) \cup (360..361)
    \cup (416..432) \cup (7840..7929)
Combining == 768..879
ChineseMain == 19968..40959
ChineseExtA == 13312..19903
ChineseCompat == 63744..64255
ChineseRadicals == 12032..12255
Hiragana == 12352..12447
Katakana == 12448..12543
KatakanaExt == 12784..12799
Halfwidth == 65381..65439
Hangul == 44032..55215
Jamo == 4352..4607
JamoExt == 43360..43391
HangulCompat == 12592..12687
Thai == 3584..3711
Arabic == 1536..1791
Devanagari == 2304..2431

isVietnamese(str) == test(VietnamesePrecomposed, str) \/ test(Combining, str)

isChinese(str) ==
    \/ test(ChineseMain, str)
    \/ test(ChineseExtA, str)
    \/ test(ChineseCompat, str)
    \/ test(ChineseRadicals, str)

isJapanese(str) ==
    \/ test(Hiragana, str)
    \/ test(Katakana, str)
    \/ test(KatakanaExt, str)
    \/ test(Halfwidth, str)

isKorean(str) ==
    \/ test(Hangul, str)
    \/ test(Jamo, str)
    \/ test(JamoExt, str)
    \/ test(HangulCompat, str)

isCJK(str) == isChinese(str) \/ isJapanese(str) \/ isKorean(str)

(* isMultiByte() comparing with >= *)
isMultiByte_GreaterEqual(str) == byteLength(str) >= Len(str)

isMultiByte(str) == byteLength(str) > Len(str)

hasCombiningMarks(str) == test(Combining, str)

isIMEInput(input) ==
    IF input = <<>> \/ (Len(input) = 1 /\ input[1] < 128) THEN FALSE
    ELSE IF isMultiByte(input) THEN TRUE
    ELSE IF hasCombiningMarks(input) THEN TRUE
    ELSE IF isVietnamese(input) \/ isCJK(input) THEN TRUE
    ELSE IF test(Thai, input) \/ test(Arabic, input) \/ test(Devanagari, input) THEN TRUE
    ELSE FALSE

---------------------------------------------------------------------------
(* The operations below are functions from a world to a world.  A world is *)
(* the part of the program state the buffer and the proxy act on.          *)

World ==
    [state |-> state, timers |-> timers, timerSeq |-> timerSeq,
     ptyWrites |-> ptyWrites, isDestroyed |-> isDestroyed,
     rawMode |-> rawMode, ptyKilled |-> ptyKilled,
     isTTY |-> isTTY, lifeLog |-> lifeLog, stdoutWrites |-> stdoutWrites,
     exitCode |-> exitCode, listeners |-> listeners,
     failing |-> {}, thrown |-> FALSE]

compositionTimeout == DEFAULT_TIMEOUT

(* setTimeout(callback, delay) at instant t: a fresh handle, due at t + delay *)
setTimeout(w, delay, t) ==
    [w EXCEPT !.timerSeq = @ + 1,
              !.timers = @ \cup {[id |-> w.timerSeq + 1, due |-> t + delay]}]

(* clearTimeout(handle): the handle leaves the timer list, its callback never runs *)
clearTimeout(w, handle) ==
    [w EXCEPT !.timers = {tm \in @ : tm.id # handle}]

(* TerminalIMEProxy.sendToApp; via names the caller for the write log *)
sendToApp(w, text, via) ==
    IF ~w.isDestroyed
    THEN [w EXCEPT !.ptyWrites = Append(@, [via |-> via, text |-> text])]
    ELSE w

(* options.onFlush and options.onRegularInput: the sinks the proxy's       *)
(* constructor hands to createCompositionBuffer; a library consumer's sink *)
(* named in w.failing throws instead of taking the text                    *)
onFlush(w, text) ==
    IF "flush" \in w.failing THEN [w EXCEPT !.thrown = TRUE]
    ELSE sendToApp(w, text, "flush")
onRegularInput(w, text) ==
    IF "regular" \in w.failing THEN [w EXCEPT !.thrown = TRUE]
    ELSE sendToApp(w, text, "regular")

---------------------------------------------------------------------------
(* CompositionBuffer *)

(* flush() that emits the buffer and forgets to empty it *)
flush_NoReset(w) ==
    LET w1 == IF w.state.flushTimer # NULL
              THEN [clearTimeout(w, w.state.flushTimer) EXCEPT !.state.flushTimer = NULL]
              ELSE w
        w2 == IF w1.state.buffer # <<>>
              THEN onFlush(w1, w1.state.buffer)
              ELSE w1
    IN  [w2 EXCEPT !.state.isComposing = FALSE]

(* flush() emitting the buffer one code point per call of the sink *)
flush_PerCodePoint(w) ==
    LET w1 == IF w.state.flushTimer # NULL
              THEN [clearTimeout(w, w.state.flushTimer) EXCEPT !.state.flushTimer = NULL]
              ELSE w
        chars == spread(w1.state.buffer)
        emitted == [i \in 1..Len(chars) |-> [via |-> "flush", text |-> chars[i]]]
        w2 == IF w1.state.buffer # <<>>
              THEN [w1 EXCEPT !.ptyWrites = IF w1.isDestroyed THEN @ ELSE @ \o emitted,
                              !.state.buffer = <<>>]
              ELSE w1
    IN  [w2 EXCEPT !.state.isComposing = FALSE]

(* an exception thrown by the sink leaves flush() at the call *)
flush(w) ==
    LET w1 == IF w.state.flushTimer # NULL
              THEN [clearTimeout(w, w.state.flushTimer) EXCEPT !.state.flushTimer = NULL]
              ELSE w
        w2 == IF w1.state.buffer # <<>>
              THEN LET sunk == onFlush(w1, w1.state.buffer)
                   IN  IF sunk.thrown THEN sunk
                       ELSE [sunk EXCEPT !.state.buffer = <<>>]
              ELSE w1
    IN  IF w2.thrown THEN w2
        ELSE [w2 EXCEPT !.state.isComposing = FALSE]

(* handleIMEInput() putting the new text in front of the buffered text *)
handleIMEInput_Prepend(w, input, t) ==
    LET w1 == [w EXCEPT !.state.isComposing = TRUE,
                        !.state.buffer = input \o @,
                        !.state.lastInputTime = t]
        w2 == IF w1.state.flushTimer # NULL
              THEN clearTimeout(w1, w1.state.flushTimer)
              ELSE w1
        w3 == setTimeout(w2, compositionTimeout, t)
    IN  [w3 EXCEPT !.state.flushTimer = w3.timerSeq]

(* handleIMEInput() that arms a timer for the first chunk of a composition only *)
handleIMEInput_NoRearm(w, input, t) ==
    LET w1 == [w EXCEPT !.state.isComposing = TRUE,
                        !.state.buffer = @ \o input,
                        !.state.lastInputTime = t]
        w2 == IF w1.state.flushTimer # NULL
              THEN clearTimeout(w1, w1.state.flushTimer)
              ELSE w1
        w3 == setTimeout(w2, compositionTimeout, t)
    IN  IF w.state.flushTimer # NULL THEN w2
        ELSE [w3 EXCEPT !.state.flushTimer = w3.timerSeq]

(* handleIMEInput() without the clearTimeout of the previous timer *)
handleIMEInput_NoClear(w, input, t) ==
    LET w1 == [w EXCEPT !.state.isComposing = TRUE,
                        !.state.buffer = @ \o input,
                        !.state.lastInputTime = t]
        w3 == setTimeout(w1, compositionTimeout, t)
    IN  [w3 EXCEPT !.state.flushTimer = w3.timerSeq]

(* handleIMEInput() after the callback of a timer that is already due has run *)
handleIMEInput_FlushStale(w, input, t) ==
    LET w0 == IF \E tm \in w.timers : tm.id = w.state.flushTimer /\ tm.due <= t
              THEN flush(w)
              ELSE w
        w1 == [w0 EXCEPT !.state.isComposing = TRUE,
                         !.state.buffer = @ \o input,
                         !.state.lastInputTime = t]
        w2 == IF w1.state.flushTimer # NULL
              THEN clearTimeout(w1, w1.state.flushTimer)
              ELSE w1
        w3 == setTimeout(w2, compositionTimeout, t)
    IN  [w3 EXCEPT !.state.flushTimer = w3.timerSeq]

handleIMEInput(w, input, t) ==
    LET w1 == [w EXCEPT !.state.isComposing = TRUE,
                        !.state.buffer = @ \o input,
                        !.state.lastInputTime = t]
        w2 == IF w1.state.flushTimer # NULL
              THEN clearTimeout(w1, w1.state.flushTimer)
              ELSE w1
        w3 == setTimeout(w2, compositionTimeout, t)
    IN  [w3 EXCEPT !.state.flushTimer = w3.timerSeq]

(* handleRegularInput() discarding the pending composition instead of flushing it *)
handleRegularInput_Discard(w, input) ==
    LET w1 == IF w.state.isComposing /\ w.state.buffer # <<>>
              THEN [w EXCEPT !.state.buffer = <<>>]
              ELSE w
    IN  onRegularInput(flush(w1), input)

(* handleRegularInput() passing the regular text on before it flushes *)
handleRegularInput_PassFirst(w, input) ==
    LET w1 == onRegularInput(w, input)
    IN  IF w1.state.isComposing /\ w1.state.buffer # <<>> THEN flush(w1) ELSE w1

(* an exception thrown inside flush() leaves handleRegularInput() too *)
handleRegularInput(w, input) ==
    LET w1 == IF w.state.isComposing /\ w.state.buffer # <<>> THEN flush(w) ELSE w
    IN  IF w1.thrown THEN w1 ELSE onRegularInput(w1, input)

process(w, input, isIME, t) ==
    IF isIME THEN handleIMEInput(w, input, t) ELSE handleRegularInput(w, input)

clear(w) ==
    LET w1 == IF w.state.flushTimer # NULL
              THEN [clearTimeout(w, w.state.flushTimer) EXCEPT !.state.flushTimer = NULL]
              ELSE w
    IN  [w1 EXCEPT !.state.buffer = <<>>, !.state.isComposing = FALSE]

(* backspace() removing the last UTF-16 code unit, buffer.slice(0, -1) *)
backspace_CodeUnit(w) ==
    IF Len(w.state.buffer) > 0
    THEN [world |-> [w EXCEPT !.state.buffer = Front(@)], ret |-> TRUE]
    ELSE [world |-> w, ret |-> FALSE]

(* backspace() that ends the composition when it removes the last code point *)
backspace_EndComposition(w) ==
    IF Len(w.state.buffer) > 0
    THEN LET chars == spread(w.state.buffer)
             w1 == [w EXCEPT !.state.buffer = join(Front(chars))]
         IN  [world |-> IF w1.state.buffer = <<>> THEN clear(w1) ELSE w1,
              ret |-> TRUE]
    ELSE [world |-> w, ret |-> FALSE]

(* backspace() as a pair: the world it leaves and the value it returns *)
backspace(w) ==
    IF Len(w.state.buffer) > 0
    THEN LET chars == spread(w.state.buffer)
         IN  [world |-> [w EXCEPT !.state.buffer = join(Front(chars))], ret |-> TRUE]
    ELSE [world |-> w, ret |-> FALSE]

(* CompositionBuffer.destroy() leaving the timer armed *)
bufferDestroy_NoClear(w) == w

bufferDestroy(w) ==
    IF w.state.flushTimer # NULL
    THEN [clearTimeout(w, w.state.flushTimer) EXCEPT !.state.flushTimer = NULL]
    ELSE w

isComposing(w) == w.state.isComposing
getBuffer(w) == w.state.buffer

---------------------------------------------------------------------------
(* TerminalIMEProxy *)

(* handleSpecialKeys() forwarding Enter before it flushes *)
handleSpecialKeys_EnterFirst(w, data) ==
    IF Len(data) = 1 /\ data[1] = 3
    THEN [world |-> sendToApp(flush(w), toString(data), "key"), ret |-> TRUE]
    ELSE IF Len(data) = 1 /\ data[1] = 4
    THEN [world |-> sendToApp(flush(w), toString(data), "key"), ret |-> TRUE]
    ELSE IF Len(data) = 1 /\ (data[1] = 127 \/ data[1] = 8)
    THEN LET b == backspace(w)
         IN  [world |-> IF ~b.ret THEN sendToApp(b.world, toString(data), "key") ELSE b.world,
              ret |-> TRUE]
    ELSE IF Len(data) = 1 /\ (data[1] = 13 \/ data[1] = 10)
    THEN [world |-> flush(sendToApp(w, toString(data), "key")), ret |-> TRUE]
    ELSE IF Len(data) >= 1 /\ data[1] = 27
    THEN [world |-> sendToApp(flush(w), toString(data), "key"), ret |-> TRUE]
    ELSE [world |-> w, ret |-> FALSE]

(* handleSpecialKeys() forwarding a backspace the buffer has absorbed *)
handleSpecialKeys_ForwardAbsorbed(w, data) ==
    IF Len(data) = 1 /\ data[1] = 3
    THEN [world |-> sendToApp(flush(w), toString(data), "key"), ret |-> TRUE]
    ELSE IF Len(data) = 1 /\ data[1] = 4
    THEN [world |-> sendToApp(flush(w), toString(data), "key"), ret |-> TRUE]
    ELSE IF Len(data) = 1 /\ (data[1] = 127 \/ data[1] = 8)
    THEN LET b == backspace(w)
         IN  [world |-> sendToApp(b.world, toString(data), "key"),
              ret |-> TRUE]
    ELSE IF Len(data) = 1 /\ (data[1] = 13 \/ data[1] = 10)
    THEN [world |-> sendToApp(flush(w), toString(data), "key"), ret |-> TRUE]
    ELSE IF Len(data) >= 1 /\ data[1] = 27
    THEN [world |-> sendToApp(flush(w), toString(data), "key"), ret |-> TRUE]
    ELSE [world |-> w, ret |-> FALSE]

(* handleSpecialKeys(data) as a pair: the world it leaves and the value it returns *)
handleSpecialKeys(w, data) ==
    IF Len(data) = 1 /\ data[1] = 3
    THEN [world |-> sendToApp(flush(w), toString(data), "key"), ret |-> TRUE]
    ELSE IF Len(data) = 1 /\ data[1] = 4
    THEN [world |-> sendToApp(flush(w), toString(data), "key"), ret |-> TRUE]
    ELSE IF Len(data) = 1 /\ (data[1] = 127 \/ data[1] = 8)
    THEN LET b == backspace(w)
         IN  [world |-> IF ~b.ret THEN sendToApp(b.world, toString(data), "key") ELSE b.world,
              ret |-> TRUE]
    ELSE IF Len(data) = 1 /\ (data[1] = 13 \/ data[1] = 10)
    THEN [world |-> sendToApp(flush(w), toString(data), "key"), ret |-> TRUE]
    ELSE IF Len(data) >= 1 /\ data[1] = 27
    THEN [world |-> sendToApp(flush(w), toString(data), "key"), ret |-> TRUE]
    ELSE [world |-> w, ret |-> FALSE]

(* the stdin 'data' listener installed by setupInputHandling, at instant t *)
onStdinData(w, data, t) ==
    IF w.isDestroyed THEN w
    ELSE LET input == toString(data)
             special == handleSpecialKeys(w, data)
         IN  IF special.ret THEN special.world
             ELSE process(w, input, isIMEInput(input), t)

destroy(w) ==
    IF w.isDestroyed THEN w
    ELSE LET w1 == bufferDestroy([w EXCEPT !.isDestroyed = TRUE,
                                           !.lifeLog = Append(@, "teardown")])
         IN  [w1 EXCEPT !.rawMode = IF w.isTTY THEN FALSE ELSE @,
                        !.ptyKilled = TRUE]

(* the process ends with a code: the 'exit' listener of                   *)
(* setupSignalHandling runs if it has been installed                       *)
processExit(w, code) ==
    LET w1 == [w EXCEPT !.lifeLog = Append(@, "exit")]
    IN  [(IF "exit" \in w.listeners THEN destroy(w1) ELSE w1) EXCEPT !.exitCode = code]

(* the pty.onExit listener leaving the teardown to the 'exit' listener *)
onPtyExit_ExitFirst(w, code) == processExit(w, code)

(* the pty.onExit listener of setupOutputHandling, given the child's exit code *)
onPtyExit(w, code) == processExit(destroy(w), code)

(* the SIGTERM listener of setupSignalHandling *)
onSigterm(w) == processExit(destroy(w), 0)

(* the pty.onData listener writing each chunk twice *)
onPtyData_Twice(w, data) ==
    IF ~w.isDestroyed
    THEN [w EXCEPT !.stdoutWrites = @ \o <<data, data>>]
    ELSE w

(* the pty.onData listener of setupOutputHandling *)
onPtyData(w, data) ==
    IF ~w.isDestroyed
    THEN [w EXCEPT !.stdoutWrites = Append(@, data)]
    ELSE w

(* spawnApp(): node-pty's spawn() returns the child's PTY or throws *)
spawnApp(w, spawned) == IF spawned THEN w ELSE [w EXCEPT !.thrown = TRUE]

setupInputHandling(w) ==
    [w EXCEPT !.rawMode = IF w.isTTY THEN TRUE ELSE @,
              !.listeners = @ \cup {"data"}]

setupOutputHandling(w) == [w EXCEPT !.listeners = @ \cup {"ptyData", "ptyExit"}]

setupSignalHandling(w) == [w EXCEPT !.listeners = @ \cup {"SIGINT", "SIGTERM", "exit"}]

setupResizeHandling(w) == [w EXCEPT !.listeners = @ \cup {"resize"}]

(* the constructor entering raw mode and installing the listeners before it spawns *)
constructor_SetupFirst(w, spawned) ==
    spawnApp(setupResizeHandling(setupSignalHandling(
                 setupOutputHandling(setupInputHandling(w)))), spawned)

(* new TerminalIMEProxy(options): an exception thrown by spawnApp() leaves *)
(* the constructor before any setup                                        *)
constructor(w, spawned) ==
    LET w1 == spawnApp(w, spawned)
    IN  IF w1.thrown THEN w1
        ELSE setupResizeHandling(setupSignalHandling(
                 setupOutputHandling(setupInputHandling(w1))))

(* main() with a command given: nothing catches what the constructor      *)
(* throws, the runtime reports it on stderr and ends the process with 1    *)
main(w, spawned) ==
    LET w1 == constructor(w, spawned)
    IN  IF w1.thrown THEN processExit(w1, 1) ELSE w1

---------------------------------------------------------------------------
(* The chunks stdin delivers in the model *)

CtrlC == <<3>>
CtrlD == <<4>>
DEL == <<127>>
BS == <<8>>
CR == <<13>>
LF == <<10>>
ArrowUp == <<27, 91, 65>>                \* ESC [ A
LetterA == <<97>>                        \* a
Zhong == <<228, 184, 173>>               \* U+4E2D
Grin == <<240, 159, 152, 128>>           \* U+1F600, a surrogate pair in UTF-16
Chao == <<99, 104, 195, 160, 111>>       \* c h U+00E0 o
AGraveLF == <<195, 160, 10>>             \* U+00E0 followed by a line feed
LoneLead == <<195>>                      \* a lead byte without its continuation byte

SpecialChunks == {CtrlC, CtrlD, DEL, BS, CR, LF, ArrowUp}
TextChunks == {LetterA, Zhong, Grin, Chao, AGraveLF, LoneLead}
Chunks == SpecialChunks \cup TextChunks

ExitCodes == {0, 1}

AllListeners == {"data", "ptyData", "ptyExit", "SIGINT", "SIGTERM", "exit", "resize"}

---------------------------------------------------------------------------
(* State machine *)

Commit(w) ==
    /\ state' = w.state
    /\ timers' = w.timers
    /\ timerSeq' = w.timerSeq
    /\ ptyWrites' = w.ptyWrites
    /\ isDestroyed' = w.isDestroyed
    /\ rawMode' = w.rawMode
    /\ ptyKilled' = w.ptyKilled
    /\ lifeLog' = w.lifeLog
    /\ stdoutWrites' = w.stdoutWrites
    /\ exitCode' = w.exitCode
    /\ thrown' = w.thrown
    /\ listeners' = w.listeners

Running == exitCode = NoExit

(* a backspace byte that the buffer will absorb *)
IsBackspace(data) == data = DEL \/ data = BS
Absorbed(data) == IsBackspace(data) /\ state.buffer # <<>>

DropLastCodePoint(str) == join(Front(spread(str)))

(* the state the constructor leaves, on a stdin that is a TTY or not and   *)
(* was in raw mode or not: setupInputHandling enters raw mode on a TTY     *)
Constructed(tty, prior) ==
    /\ state = [isComposing |-> FALSE, buffer |-> <<>>, lastInputTime |-> 0,
                flushTimer |-> NULL]
    /\ timers = {}
    /\ timerSeq = 0
    /\ ptyWrites = <<>>
    /\ isDestroyed = FALSE
    /\ rawMode = (IF tty THEN TRUE ELSE prior)
    /\ ptyKilled = FALSE
    /\ exitCode = NoExit
    /\ now = 0
    /\ nChunks = 0
    /\ accepted = <<>>
    /\ imeIn = <<>>
    /\ regularIn = <<>>
    /\ nCalls = 0
    /\ lastOp = [op |-> "new", pre |-> <<>>, ret |-> FALSE]
    /\ isTTY = tty
    /\ priorRawMode = prior
    /\ lifeLog = <<>>
    /\ lastEvent = "none"
    /\ childOut = <<>>
    /\ stdoutWrites = <<>>
    /\ sample = <<>>
    /\ verdict = FALSE
    /\ staleTimers = {}
    /\ thrown = FALSE
    /\ listeners = AllListeners

(* launched from a shell: stdin is a TTY in cooked mode *)
Init == Constructed(TRUE, FALSE)

(* the state main() finds before it constructs the proxy *)
Launched(tty, prior) ==
    /\ state = [isComposing |-> FALSE, buffer |-> <<>>, lastInputTime |-> 0,
                flushTimer |-> NULL]
    /\ timers = {}
    /\ timerSeq = 0
    /\ ptyWrites = <<>>
    /\ isDestroyed = FALSE
    /\ rawMode = prior
    /\ ptyKilled = FALSE
    /\ exitCode = NoExit
    /\ now = 0
    /\ nChunks = 0
    /\ accepted = <<>>
    /\ imeIn = <<>>
    /\ regularIn = <<>>
    /\ nCalls = 0
    /\ lastOp = [op |-> "new", pre |-> <<>>, ret |-> FALSE]
    /\ isTTY = tty
    /\ priorRawMode = prior
    /\ lifeLog = <<>>
    /\ lastEvent = "none"
    /\ childOut = <<>>
    /\ stdoutWrites = <<>>
    /\ sample = <<>>
    /\ verdict = FALSE
    /\ staleTimers = {}
    /\ thrown = FALSE
    /\ listeners = {}

(* the composition timeout has elapsed and the timer's callback has not run yet *)
TimerIsDue ==
    \E tm \in timers : tm.id = state.flushTimer /\ tm.due <= now

(* stdin emits 'data' with one chunk *)
StdinData(data) ==
    /\ Running
    /\ "data" \in listeners
    /\ nChunks < MaxChunks
    /\ now + compositionTimeout + TickMs <= MaxTime
    /\ Commit(onStdinData(World, data, now))
    /\ nChunks' = nChunks + 1
    /\ LET input == toString(data)
           special == handleSpecialKeys(World, data).ret
       IN  /\ accepted' = IF isDestroyed THEN accepted
                          ELSE IF Absorbed(data) THEN DropLastCodePoint(accepted)
                          ELSE accepted \o input
           /\ imeIn' = IF isDestroyed THEN imeIn
                       ELSE IF Absorbed(data) THEN DropLastCodePoint(imeIn)
                       ELSE IF ~special /\ isIMEInput(input) THEN imeIn \o input
                       ELSE imeIn
           /\ regularIn' = IF ~isDestroyed /\ ~special /\ ~isIMEInput(input)
                           THEN Append(regularIn, input)
                           ELSE regularIn
           /\ staleTimers' = IF ~isDestroyed /\ ~special /\ isIMEInput(input) /\ TimerIsDue
                             THEN staleTimers \cup {state.flushTimer}
                             ELSE staleTimers
    /\ UNCHANGED <<now, nCalls, lastOp, ttyVars, classifierVars,
                   lastEvent, childOut>>

(* a timer that is due runs its callback, () => this.flush() *)
TimerFire ==
    /\ Running
    /\ \E tm \in timers :
          /\ tm.due <= now
          /\ Commit(flush([World EXCEPT !.timers = @ \ {tm}]))
    /\ UNCHANGED <<now, nChunks, accepted, imeIn, regularIn, nCalls, lastOp,
                   ttyVars, classifierVars, lastEvent, childOut,
                   staleTimers>>

(* time passes *)
Tick ==
    /\ Running
    /\ now + TickMs <= MaxTime
    /\ now' = now + TickMs
    /\ UNCHANGED <<state, timers, timerSeq, ptyWrites, isDestroyed, rawMode,
                   ptyKilled, exitCode, nChunks, accepted, imeIn, regularIn,
                   nCalls, lastOp, ttyVars, classifierVars, lifeLog, lastEvent,
                   childOut, stdoutWrites,
                   staleTimers,
                   thrown,
                   listeners>>

(* a library caller invokes proxy.destroy() *)
Destroy ==
    /\ Running
    /\ ~isDestroyed
    /\ Commit(destroy(World))
    /\ UNCHANGED <<now, nChunks, accepted, imeIn, regularIn, nCalls, lastOp,
                   ttyVars, classifierVars, lastEvent, childOut,
                   staleTimers>>

(* pty.onExit: destroy(), then process.exit(exitCode), whose 'exit'       *)
(* listener calls destroy() again                                          *)
ChildExit(code) ==
    /\ Running
    /\ "ptyExit" \in listeners
    /\ Commit(onPtyExit(World, code))
    /\ lastEvent' = "childExit"
    /\ UNCHANGED <<now, nChunks, accepted, imeIn, regularIn, nCalls, lastOp,
                   ttyVars, classifierVars, childOut,
                   staleTimers>>

(* the SIGTERM listener: destroy(), then process.exit(0) and its 'exit' listener *)
Sigterm ==
    /\ Running
    /\ "SIGTERM" \in listeners
    /\ Commit(onSigterm(World))
    /\ lastEvent' = "SIGTERM"
    /\ UNCHANGED <<now, nChunks, accepted, imeIn, regularIn, nCalls, lastOp,
                   ttyVars, classifierVars, childOut,
                   staleTimers>>

Next ==
    \/ \E data \in Chunks : StdinData(data)
    \/ TimerFire
    \/ Tick
    \/ Destroy
    \/ \E code \in ExitCodes : ChildExit(code)
    \/ Sigterm

Spec == Init /\ [][Next]_vars

---------------------------------------------------------------------------
(* A CompositionBuffer driven directly by a library consumer: the public   *)
(* methods are called with texts and flags of the consumer's choosing, and *)
(* both sinks append to the write log.                                     *)

TextA == toString(LetterA)
TextZhong == toString(Zhong)
TextGrin == toString(Grin)
TextHigh == <<55357>>                    \* the high half of TextGrin, unpaired
Texts == {<<>>, TextA, TextZhong, TextGrin, TextHigh}

Called(op, ret) ==
    /\ nCalls' = nCalls + 1
    /\ lastOp' = [op |-> op, pre |-> state.buffer, ret |-> ret]

CallProcess(text, isIME) ==
    /\ nCalls < MaxCalls
    /\ now + compositionTimeout + TickMs <= MaxTime
    /\ Commit(process(World, text, isIME, now))
    /\ Called(IF isIME THEN "processIME" ELSE "processRegular", FALSE)
    /\ UNCHANGED <<now, nChunks, accepted, imeIn, regularIn,
                   ttyVars, classifierVars, lastEvent, childOut,
                   staleTimers>>

CallFlush ==
    /\ nCalls < MaxCalls
    /\ Commit(flush(World))
    /\ Called("flush", FALSE)
    /\ UNCHANGED <<now, nChunks, accepted, imeIn, regularIn,
                   ttyVars, classifierVars, lastEvent, childOut,
                   staleTimers>>

CallBackspace ==
    /\ nCalls < MaxCalls
    /\ Commit(backspace(World).world)
    /\ Called("backspace", backspace(World).ret)
    /\ UNCHANGED <<now, nChunks, accepted, imeIn, regularIn,
                   ttyVars, classifierVars, lastEvent, childOut,
                   staleTimers>>

CallClear ==
    /\ nCalls < MaxCalls
    /\ Commit(clear(World))
    /\ Called("clear", FALSE)
    /\ UNCHANGED <<now, nChunks, accepted, imeIn, regularIn,
                   ttyVars, classifierVars, lastEvent, childOut,
                   staleTimers>>

BufferTimerFire ==
    /\ \E tm \in timers :
          /\ tm.due <= now
          /\ Commit(flush([World EXCEPT !.timers = @ \ {tm}]))
    /\ lastOp' = [op |-> "timer", pre |-> state.buffer, ret |-> FALSE]
    /\ UNCHANGED <<now, nChunks, accepted, imeIn, regularIn, nCalls,
                   ttyVars, classifierVars, lastEvent, childOut,
                   staleTimers>>

BufferNext ==
    \/ \E text \in Texts, isIME \in BOOLEAN : CallProcess(text, isIME)
    \/ CallFlush
    \/ CallBackspace
    \/ CallClear
    \/ BufferTimerFire
    \/ Tick

BufferSpec == Init /\ [][BufferNext]_vars

(* A CompositionBuffer whose consumer's sinks may throw: each call of      *)
(* process() or flush() is made with some of the two sinks failing.  The   *)
(* sinks take the text again when the timer's callback calls them.         *)

Sinks == {"flush", "regular"}
SinkTexts == {TextA, TextZhong}

ThrowingProcess(text, isIME, failing) ==
    /\ nCalls < MaxCalls
    /\ now + compositionTimeout + TickMs <= MaxTime
    /\ Commit(process([World EXCEPT !.failing = failing], text, isIME, now))
    /\ Called(IF isIME THEN "processIME" ELSE "processRegular", FALSE)
    /\ UNCHANGED <<now, nChunks, accepted, imeIn, regularIn,
                   ttyVars, classifierVars, lastEvent, childOut,
                   staleTimers>>

ThrowingFlush(failing) ==
    /\ nCalls < MaxCalls
    /\ Commit(flush([World EXCEPT !.failing = failing]))
    /\ Called("flush", FALSE)
    /\ UNCHANGED <<now, nChunks, accepted, imeIn, regularIn,
                   ttyVars, classifierVars, lastEvent, childOut,
                   staleTimers>>

SinkNext ==
    \/ \E text \in SinkTexts, isIME \in BOOLEAN, failing \in SUBSET Sinks :
          ThrowingProcess(text, isIME, failing)
    \/ \E failing \in SUBSET Sinks : ThrowingFlush(failing)
    \/ BufferTimerFire
    \/ Tick

SinkSpec == Init /\ [][SinkNext]_vars

(* The life cycle of the proxy: signals to the host process, output and   *)
(* exit of the child, on any stdin the constructor may have found.         *)

LifeChunks == {LF, LetterA, Zhong}
OutX == <<120>>                          \* x
OutHome == <<27, 91, 72>>                \* ESC [ H
OutChunks == {OutX, OutHome}
MaxOut == 2         \* output chunks of the child per run

LifeInit ==
    \E tty \in BOOLEAN :
       \E prior \in (IF tty THEN BOOLEAN ELSE {FALSE}) :
          Constructed(tty, prior)

(* the SIGINT listener only logs; the process keeps running *)
Sigint ==
    /\ Running
    /\ "SIGINT" \in listeners
    /\ lastEvent' = "SIGINT"
    /\ UNCHANGED <<state, timers, timerSeq, ptyWrites, isDestroyed, rawMode,
                   ptyKilled, exitCode, now, nChunks, accepted, imeIn, regularIn,
                   nCalls, lastOp, ttyVars, classifierVars, lifeLog, childOut,
                   stdoutWrites,
                   staleTimers,
                   thrown,
                   listeners>>

(* SIGHUP has no listener: the default disposition ends the process, no   *)
(* 'exit' event is emitted, the status is 128 + 1                          *)
Sighup ==
    /\ Running
    /\ exitCode' = 129
    /\ lastEvent' = "SIGHUP"
    /\ UNCHANGED <<state, timers, timerSeq, ptyWrites, isDestroyed, rawMode,
                   ptyKilled, now, nChunks, accepted, imeIn, regularIn,
                   nCalls, lastOp, ttyVars, classifierVars, lifeLog, childOut,
                   stdoutWrites,
                   staleTimers,
                   thrown,
                   listeners>>

(* the child writes a chunk to its terminal: pty emits 'data' *)
PtyData(data) ==
    /\ Running
    /\ "ptyData" \in listeners
    /\ Len(childOut) < MaxOut
    /\ Commit(onPtyData(World, data))
    /\ childOut' = IF isDestroyed THEN childOut ELSE Append(childOut, data)
    /\ UNCHANGED <<now, nChunks, accepted, imeIn, regularIn, nCalls, lastOp,
                   ttyVars, classifierVars, lastEvent,
                   staleTimers>>

LifeNext ==
    \/ \E data \in LifeChunks : StdinData(data)
    \/ TimerFire
    \/ Tick
    \/ Destroy
    \/ \E code \in ExitCodes : ChildExit(code)
    \/ Sigterm
    \/ Sigint
    \/ Sighup
    \/ \E data \in OutChunks : PtyData(data)

LifeSpec == LifeInit /\ [][LifeNext]_vars

(* The proxy from the launch on: main() constructs it, and spawning the   *)
(* child succeeds or fails.  The clock starts at the construction.         *)

StartInit ==
    \E tty \in BOOLEAN :
       \E prior \in (IF tty THEN BOOLEAN ELSE {FALSE}) :
          Launched(tty, prior)

Launch(spawned) ==
    /\ Running
    /\ listeners = {}
    /\ Commit(main(World, spawned))
    /\ UNCHANGED <<now, nChunks, accepted, imeIn, regularIn, nCalls, lastOp,
                   ttyVars, classifierVars, lastEvent, childOut, staleTimers>>

StartNext ==
    \/ \E spawned \in BOOLEAN : Launch(spawned)
    \/ \E data \in LifeChunks : StdinData(data)
    \/ TimerFire
    \/ (listeners # {} /\ Tick)
    \/ \E code \in ExitCodes : ChildExit(code)
    \/ Sigterm

StartSpec == StartInit /\ [][StartNext]_vars

(* isIMEInput called by a library consumer on strings of a few code units *)

MaxLen == 2         \* code units per classified string
Units == {10, 97, 127, 224, 769, 3585, 20013, 55357, 56832, 65533}

RECURSIVE StringsUpTo(_)
StringsUpTo(n) ==
    IF n = 0 THEN {<<>>}
    ELSE LET shorter == StringsUpTo(n - 1)
         IN  shorter \cup {Append(str, u) : str \in shorter, u \in Units}

Classify(text) ==
    /\ sample' = text
    /\ verdict' = isIMEInput(text)
    /\ UNCHANGED <<state, timers, timerSeq, ptyWrites, isDestroyed, rawMode,
                   ptyKilled, exitCode, now, nChunks, accepted, imeIn, regularIn,
                   nCalls, lastOp, ttyVars, lifeLog, lastEvent, childOut,
                   stdoutWrites,
                   staleTimers,
                   thrown,
                   listeners>>

ClassifyNext == \E text \in StringsUpTo(MaxLen) : Classify(text)

ClassifySpec == Init /\ [][ClassifyNext]_vars

(* The proxy under a fair event loop: time passes and a due timer's        *)
(* callback is run.  The chunks are one of each kind the handler tells     *)
(* apart.                                                                  *)
IdleChunks == {LF, ArrowUp, DEL, LetterA, Zhong, Grin}

IdleNext ==
    \/ \E data \in IdleChunks : StdinData(data)
    \/ TimerFire
    \/ Tick
    \/ Destroy
    \/ \E code \in ExitCodes : ChildExit(code)
    \/ Sigterm

FairSpec == Init /\ [][IdleNext]_vars /\ WF_vars(Tick) /\ WF_vars(TimerFire)

---------------------------------------------------------------------------
(* Vocabulary of the properties *)

WriteTexts(ws) == [i \in 1..Len(ws) |-> ws[i].text]
Via(via) == SelectSeq(ptyWrites, LAMBDA wr : wr.via = via)

(* everything the child has received, as one string *)
ChildStream == Flatten(WriteTexts(ptyWrites))
(* everything the flushed-text sink has emitted, as one string *)
FlushedText == Flatten(WriteTexts(Via("flush")))

(* the writes a step adds to the log *)
Added == SubSeq(ptyWrites', Len(ptyWrites) + 1, Len(ptyWrites'))

IsFlushKey(data) ==
    \/ data \in {CtrlC, CtrlD, CR, LF}
    \/ (Len(data) >= 1 /\ data[1] = 27)

(* number of code points of a string: every code unit is one, except the  *)
(* low half of a surrogate pair                                            *)
PairStarts(str) ==
    {i \in 1..(Len(str) - 1) : IsHighSurrogate(str[i]) /\ IsLowSurrogate(str[i + 1])}
CodePointCount(str) == Len(str) - Cardinality(PairStarts(str))

IsPrefix(p, str) == Len(p) <= Len(str) /\ SubSeq(str, 1, Len(p)) = p

---------------------------------------------------------------------------
(* C1. Order preservation: before teardown, the concatenation of all      *)
(* writes to the child PTY, followed by the text still held in the         *)
(* buffer, is the in-order concatenation of the texts of the input chunks  *)
(* less the code points absorbed backspaces removed.                       *)
OrderPreservation ==
    ~isDestroyed => ChildStream \o state.buffer = accepted

(* a flush and a forwarded key have reached the child, more text is pending *)
OrderPreservationWitness ==
    /\ ~isDestroyed
    /\ Len(ptyWrites) = 2
    /\ ptyWrites[1].via = "flush"
    /\ ptyWrites[2] = [via |-> "key", text |-> toString(LF)]
    /\ state.buffer = toString(Grin)

(* C2. Flush precedes the triggering control key: when 0x03, 0x04, 0x0D,  *)
(* 0x0A or a chunk starting with 0x1B arrives at a running proxy whose     *)
(* buffer is non-empty, the PTY receives the whole buffered text and then  *)
(* the control chunk, and the buffer is empty afterwards.                  *)
FlushPrecedesKey ==
    [][\A data \in Chunks :
          (StdinData(data) /\ IsFlushKey(data) /\ ~isDestroyed /\ state.buffer # <<>>)
          => /\ ptyWrites' = ptyWrites \o <<[via |-> "flush", text |-> state.buffer],
                                            [via |-> "key", text |-> toString(data)]>>
             /\ state'.buffer = <<>>]_vars

(* the arrow-up sequence has followed a flushed composition to the child *)
FlushPrecedesKeyWitness ==
    /\ Len(ptyWrites) >= 2
    /\ ptyWrites[Len(ptyWrites) - 1] = [via |-> "flush", text |-> toString(Zhong)]
    /\ Last(ptyWrites) = [via |-> "key", text |-> toString(ArrowUp)]
    /\ state.buffer = <<>>

(* C3. Atomic flush: a step that flushes a non-empty buffer (timer, flush  *)
(* key, or regular chunk) adds exactly one flushed-text write, carrying    *)
(* the entire buffer, ahead of anything else the step writes; no step      *)
(* emits part of the buffer or emits it in several writes.                 *)
FlushingStep ==
    \/ TimerFire
    \/ \E data \in Chunks :
          /\ StdinData(data)
          /\ ~IsBackspace(data)
          /\ (IsFlushKey(data) \/ ~isIMEInput(toString(data)))

AtomicFlush ==
    [][/\ IsPrefix(ptyWrites, ptyWrites')
       /\ \A i \in 1..Len(Added) :
             Added[i].via = "flush"
             => i = 1 /\ Added[i].text = state.buffer /\ state'.buffer = <<>>
       /\ (FlushingStep /\ ~isDestroyed /\ state.buffer # <<>>)
          => Len(Added) >= 1 /\ Added[1].via = "flush"]_vars

(* a buffer of several code points has been flushed *)
AtomicFlushWitness ==
    /\ ptyWrites # <<>>
    /\ Last(ptyWrites).via = "flush"
    /\ CodePointCount(Last(ptyWrites).text) >= 2
    /\ state.buffer = <<>>

(* C4 as stated. No silent loss in every run: once the run is over, the   *)
(* text handed to process(text, true) and not removed by backspace() has   *)
(* all been emitted through the flushed-text sink.                         *)
NoSilentLoss ==
    isDestroyed => FlushedText = imeIn

(* C4 as amended. Text handed to process(text, true) and not removed by   *)
(* backspace() is either in an onFlush emission or still in the buffer,    *)
(* the regular-input sink carries the regular texts and nothing else, and  *)
(* after teardown nothing more is emitted.                                 *)
NoSilentLossBeforeTeardown ==
    /\ [](FlushedText \o state.buffer = imeIn)
    /\ [](WriteTexts(Via("regular")) = regularIn)
    /\ [][isDestroyed => ptyWrites' = ptyWrites]_vars

(* teardown has caught a composition in the buffer after an earlier flush *)
NoSilentLossWitness ==
    /\ isDestroyed
    /\ state.buffer # <<>>
    /\ FlushedText # <<>>
    /\ regularIn # <<>>

(* C5. Idle flush: once text is buffered, unless another terminal event   *)
(* or teardown intervenes, the timer fires and the child has received the  *)
(* buffered text; the firing emits the buffer in one write, empties it and *)
(* leaves no timer behind that could emit it again.                        *)
IdlePending(n) ==
    /\ nChunks = n
    /\ state.buffer # <<>>
    /\ ~isDestroyed
    /\ Running

IdleFlushed(n) ==
    \/ nChunks # n
    \/ isDestroyed
    \/ ~Running
    \/ /\ state.buffer = <<>>
       /\ FlushedText = imeIn
       /\ ptyWrites # <<>>
       /\ Last(ptyWrites).via = "flush"

IdleFlush ==
    /\ \A n \in 1..(MaxChunks + 1) : IdlePending(n) ~> IdleFlushed(n)
    /\ [][(TimerFire /\ state.buffer # <<>>)
          => /\ ptyWrites' = Append(ptyWrites, [via |-> "flush", text |-> state.buffer])
             /\ state'.buffer = <<>>
             /\ timers' = {}]_vars

(* the timer has flushed a composition and nothing is armed any more *)
IdleFlushWitness ==
    /\ ptyWrites = <<[via |-> "flush", text |-> toString(Zhong) \o toString(Zhong)]>>
    /\ state.buffer = <<>>
    /\ timers = {}
    /\ nChunks = 2

(* C6. Backspace routing: at a running proxy a chunk 0x7F or 0x08 takes   *)
(* the last code point off a non-empty buffer and writes nothing; with an  *)
(* empty buffer the byte is forwarded and the buffer stays empty; a timer  *)
(* firing on an emptied buffer writes nothing.                             *)
BackspaceRouting ==
    [][/\ \A data \in {DEL, BS} :
             (StdinData(data) /\ ~isDestroyed)
             => IF state.buffer # <<>>
                THEN /\ ptyWrites' = ptyWrites
                     /\ IsPrefix(state'.buffer, state.buffer)
                     /\ CodePointCount(state'.buffer) = CodePointCount(state.buffer) - 1
                ELSE /\ ptyWrites' = Append(ptyWrites, [via |-> "key", text |-> data])
                     /\ state'.buffer = <<>>
       /\ (TimerFire /\ state.buffer = <<>>) => ptyWrites' = ptyWrites]_vars

(* a backspace has emptied the buffer, the timer has fired, the child has nothing *)
BackspaceRoutingWitness ==
    /\ nChunks = 2
    /\ accepted = <<>>
    /\ timerSeq = 1
    /\ timers = {}
    /\ ptyWrites = <<>>
    /\ ~isDestroyed

(* C7. Code-point backspace: on a non-empty buffer backspace() returns    *)
(* true and leaves the previous content less exactly its last code point   *)
(* (a prefix, one code point shorter, no surrogate pair cut in two); on an *)
(* empty buffer it returns false and changes nothing.                      *)
OneCodePoint(str) ==
    \/ Len(str) = 1
    \/ (Len(str) = 2 /\ IsHighSurrogate(str[1]) /\ IsLowSurrogate(str[2]))

CodePointBackspace ==
    [][CallBackspace
       => LET before == state.buffer
              after == state'.buffer
              removed == SubSeq(before, Len(after) + 1, Len(before))
          IN  IF before # <<>>
              THEN /\ lastOp'.ret = TRUE
                   /\ IsPrefix(after, before)
                   /\ OneCodePoint(removed)
                   /\ CodePointCount(after) = CodePointCount(before) - 1
                   /\ ~(after # <<>> /\ IsHighSurrogate(Last(after))
                          /\ IsLowSurrogate(removed[1]))
              ELSE /\ lastOp'.ret = FALSE
                   /\ state' = state]_vars

(* backspace() has removed a whole surrogate pair from behind a BMP character *)
CodePointBackspaceWitness ==
    /\ lastOp = [op |-> "backspace", pre |-> TextZhong \o TextGrin, ret |-> TRUE]
    /\ state.buffer = TextZhong

(* C8. Regular-input transparency: process(text, false) hands text to the *)
(* regular-input sink once, unchanged, in the same step, after the flush   *)
(* of any pending composition.                                             *)
RegularTransparency ==
    [][\A text \in Texts :
          CallProcess(text, FALSE)
          => /\ ptyWrites' = ptyWrites
                    \o (IF state.buffer # <<>>
                        THEN <<[via |-> "flush", text |-> state.buffer]>>
                        ELSE <<>>)
                    \o <<[via |-> "regular", text |-> text]>>
             /\ state'.buffer = <<>>]_vars

(* a, then a composition, then a: the child has all three in that order *)
RegularTransparencyWitness ==
    /\ ptyWrites = <<[via |-> "regular", text |-> TextA],
                     [via |-> "flush", text |-> TextZhong],
                     [via |-> "regular", text |-> TextA]>>
    /\ lastOp.op = "processRegular"

(* C9. State-shape invariant: while the proxy runs, after every operation *)
(* the buffer is Idle (empty, not composing, no timer) or Composing        *)
(* (non-empty, composing, timer armed).                                    *)
Idle ==
    /\ state.buffer = <<>>
    /\ ~state.isComposing
    /\ state.flushTimer = NULL
    /\ timers = {}

Composing ==
    /\ state.buffer # <<>>
    /\ state.isComposing
    /\ state.flushTimer # NULL
    /\ \E tm \in timers : tm.id = state.flushTimer

StateShape ==
    ~isDestroyed => (Idle \/ Composing)

(* C10. Timer uniqueness: at most one composition timer is pending, and   *)
(* it is the one the buffer holds; a superseded timer is no longer pending *)
(* and so never fires.                                                     *)
TimerUniqueness ==
    /\ Cardinality(timers) <= 1
    /\ \A tm \in timers : tm.id = state.flushTimer

(* a second IME chunk has superseded the first timer *)
TimerUniquenessWitness ==
    /\ timerSeq = 2
    /\ timers = {[id |-> 2, due |-> now + compositionTimeout]}
    /\ state.buffer = toString(Zhong) \o toString(Grin)


(* C11. flush() postcondition and idempotence: after flush() the buffer   *)
(* is empty, no timer is armed and composing is false; flush() on an empty *)
(* buffer does not call the flushed-text sink; a flush() right after a     *)
(* flush() emits nothing and changes no state.                             *)
FlushPostcondition ==
    [][CallFlush
       => /\ state'.buffer = <<>>
          /\ state'.flushTimer = NULL
          /\ timers' = {}
          /\ ~state'.isComposing
          /\ ptyWrites' = IF state.buffer = <<>> THEN ptyWrites
                          ELSE Append(ptyWrites, [via |-> "flush", text |-> state.buffer])
          /\ lastOp.op = "flush"
             => /\ state' = state
                /\ timers' = timers
                /\ ptyWrites' = ptyWrites]_vars

(* a composition was flushed by a call, and a further flush() found the buffer empty *)
FlushPostconditionWitness ==
    /\ nCalls = 3
    /\ lastOp = [op |-> "flush", pre |-> <<>>, ret |-> FALSE]
    /\ ptyWrites = <<[via |-> "flush", text |-> TextZhong]>>
    /\ timerSeq = 1
    /\ now = 0
    /\ Idle

(* C12. Buffer purity: the buffer of the proxy never holds a control byte *)
(* (0x03, 0x04, 0x08, 0x7F, 0x0A, 0x0D) or an escape byte 0x1B, whatever   *)
(* chunks stdin delivers.                                                  *)
ControlUnits == {3, 4, 8, 127, 10, 13, 27}

BufferPurity ==
    \A i \in 1..Len(state.buffer) : state.buffer[i] \notin ControlUnits


(* C13. Teardown safety: after teardown stdin is in the mode it had       *)
(* before the proxy was constructed, raw or cooked.                        *)
TeardownSafety ==
    isDestroyed => rawMode = priorRawMode

(* C14. Teardown discards pending text: once teardown has run no timer is *)
(* armed; neither the teardown nor anything after it writes to the child   *)
(* PTY or changes the buffer, so text buffered at teardown is never        *)
(* emitted and later stdin chunks have no effect.                          *)
TeardownDiscards ==
    /\ [](isDestroyed => (timers = {} /\ state.flushTimer = NULL))
    /\ [][(isDestroyed \/ isDestroyed')
          => (ptyWrites' = ptyWrites /\ state'.buffer = state.buffer)]_vars

(* a chunk has arrived after teardown caught a composition in the buffer *)
TeardownDiscardsWitness ==
    /\ isDestroyed
    /\ Running
    /\ state.buffer = toString(Zhong)
    /\ accepted = toString(Zhong)
    /\ nChunks = 2
    /\ ptyWrites = <<>>

(* C15. Child-exit propagation: when the child reports exit with code c   *)
(* the teardown runs before process.exit is called, the host process ends  *)
(* with code c, and the teardown has run once although the 'exit'          *)
(* listener calls destroy() again.                                         *)
ChildExitPropagation ==
    [][\A code \in ExitCodes :
          ChildExit(code)
          => /\ exitCode' = code
             /\ isDestroyed'
             /\ ptyKilled'
             /\ timers' = {}
             /\ lifeLog' = <<"teardown", "exit">>]_vars

(* the child has exited with code 1 in the middle of a composition *)
ChildExitPropagationWitness ==
    /\ lastEvent = "childExit"
    /\ exitCode = 1
    /\ lifeLog = <<"teardown", "exit">>
    /\ state.buffer # <<>>
    /\ ptyKilled

(* C16. Fatal-signal teardown: after SIGINT, SIGTERM or SIGHUP has        *)
(* reached the host process, the teardown has run (timer cancelled, child  *)
(* killed) and the host process has exited.                                *)
FatalSignals == {"SIGINT", "SIGTERM", "SIGHUP"}

FatalSignalTeardown ==
    lastEvent \in FatalSignals
    => /\ isDestroyed
       /\ timers = {}
       /\ ptyKilled
       /\ ~Running

(* C17. Fatal-signal exit code: a host process that has exited because of *)
(* a fatal signal has a non-zero exit code.                                *)
FatalSignalExitCode ==
    (lastEvent \in FatalSignals /\ ~Running) => exitCode # 0


(* C18. Classifier result: a string is classified IME exactly when it     *)
(* holds a code unit outside 7-bit ASCII (every combining mark and every   *)
(* listed script is outside ASCII); the empty string, one ASCII character  *)
(* and an all-ASCII string of any length are classified Regular.           *)
ClassifierResult ==
    verdict = (\E i \in 1..Len(sample) : sample[i] >= 128)

(* an ASCII letter followed by a precomposed Vietnamese letter is IME *)
ClassifierResultWitness ==
    /\ sample = <<97, 224>>
    /\ verdict

(* C19. Output passthrough: what has been written to stdout is exactly    *)
(* the output chunks the child produced before teardown, each once,        *)
(* unchanged and in order, whatever the composition buffer holds; after    *)
(* teardown nothing is written to stdout.                                  *)
OutputPassthrough ==
    /\ [](stdoutWrites = childOut)
    /\ [][isDestroyed => stdoutWrites' = stdoutWrites]_vars

(* two output chunks have passed while a composition was pending *)
OutputPassthroughWitness ==
    /\ ~isDestroyed
    /\ state.buffer # <<>>
    /\ stdoutWrites = <<OutHome, OutX>>

(* C20. Malformed UTF-8 fails open: a chunk that is not valid UTF-8 and   *)
(* not a special key is not added to the buffer, and the last write of     *)
(* the same step hands the child exactly the chunk's bytes, without        *)
(* waiting for the timer.                                                  *)
MalformedFailsOpen ==
    [][\A data \in Chunks :
          (/\ StdinData(data)
           /\ ~isDestroyed
           /\ ~WellFormed(data)
           /\ ~handleSpecialKeys(World, data).ret)
          => /\ state'.buffer \in {<<>>, state.buffer}
             /\ Added # <<>>
             /\ utf8Encode(Last(Added).text) = data]_vars


(* C21. Timer versus stdin race: an IME chunk that arrives when the       *)
(* composition timeout has elapsed and the timer's callback has not run    *)
(* is appended to the buffer without any write, the due timer is           *)
(* cancelled and a new one armed; a cancelled timer is never pending       *)
(* again, so its callback never flushes, and when a timer does fire it     *)
(* emits the whole buffer, old and new text, in one write.                 *)
StaleTimerRace ==
    /\ [][\A data \in Chunks :
             (/\ StdinData(data)
              /\ ~isDestroyed
              /\ TimerIsDue
              /\ ~handleSpecialKeys(World, data).ret
              /\ isIMEInput(toString(data)))
             => /\ state'.buffer = state.buffer \o toString(data)
                /\ ptyWrites' = ptyWrites
                /\ state'.flushTimer = timerSeq'
                /\ timers' = {[id |-> timerSeq', due |-> now + compositionTimeout]}
                /\ timerSeq' = timerSeq + 1]_vars
    /\ [](\A tm \in timers : tm.id \notin staleTimers)
    /\ [][(TimerFire /\ ~isDestroyed /\ state.buffer # <<>>)
          => Added = <<[via |-> "flush", text |-> state.buffer]>>]_vars

(* 中 arrived, the timeout elapsed, "chào" arrived before the callback ran, *)
(* and the second timer has flushed both in one write                      *)
StaleTimerRaceWitness ==
    /\ staleTimers = {1}
    /\ state.buffer = <<>>
    /\ ptyWrites = <<[via |-> "flush", text |-> toString(Zhong) \o toString(Chao)]>>


(* C22. Sink failure leaves state intact: a call of process() or flush()  *)
(* during which a sink throws ends with the exception, whenever flush()    *)
(* meets a failing flushed-text sink with text to emit, and leaves the     *)
(* buffer content, the composing flag and the armed timer as they were     *)
(* before the call.                                                        *)
SinkFailureIntact ==
    /\ [][\A failing \in SUBSET Sinks :
             (ThrowingFlush(failing) /\ "flush" \in failing /\ state.buffer # <<>>)
             => thrown']_vars
    /\ [][thrown' => (state' = state /\ timers' = timers)]_vars


(* C23. Spawn failure is contained: when spawning the child fails, the    *)
(* launch ends the process with exit code 1 with stdin in the mode it was  *)
(* found in, no listener installed, no timer armed and nothing written;    *)
(* as long as no listener is installed stdin is in its prior mode.         *)
SpawnFailureContained ==
    /\ [][Launch(FALSE)
          => /\ exitCode' = 1
             /\ rawMode' = priorRawMode
             /\ listeners' = {}
             /\ timers' = {}
             /\ ptyWrites' = <<>>
             /\ stdoutWrites' = <<>>]_vars
    /\ [](listeners = {} => (rawMode = priorRawMode /\ timers = {}))

(* a launch from a cooked TTY whose spawn has failed *)
SpawnFailureContainedWitness ==
    /\ exitCode = 1
    /\ thrown
    /\ listeners = {}
    /\ isTTY
    /\ ~rawMode


(* C24. Frame of backspace(): a call of backspace() changes nothing but   *)
(* the buffer content: the armed timer and its deadline, the composing     *)
(* flag and lastInputTime stay as they were and neither sink is called;    *)
(* the timer that stays armed, when it fires, flushes what remains in the  *)
(* buffer.                                                                 *)
BackspaceFrame ==
    /\ [][CallBackspace
          => /\ state' = [state EXCEPT !.buffer = state'.buffer]
             /\ timers' = timers
             /\ timerSeq' = timerSeq
             /\ ptyWrites' = ptyWrites]_vars
    /\ [][(BufferTimerFire /\ lastOp.op = "backspace" /\ state.buffer # <<>>)
          => (ptyWrites' = Append(ptyWrites, [via |-> "flush", text |-> state.buffer])
              /\ state'.buffer = <<>>)]_vars

(* backspace() has taken the emoji off "中😀" and the timer is still armed *)
BackspaceFrameWitness ==
    /\ lastOp = [op |-> "backspace", pre |-> TextZhong \o TextGrin, ret |-> TRUE]
    /\ state.buffer = TextZhong
    /\ state.isComposing
    /\ timers = {[id |-> state.flushTimer, due |-> state.lastInputTime + compositionTimeout]}
    /\ ptyWrites = <<>>

====
